---- MODULE Spec2Model ----
(***************************************************************************)
(* A model of the ReplisomeTracer signal pipeline:                         *)
(*   scripts/lib/slidingWindowsBedgraphs_utils.py  (tag decoding, sliding  *)
(*       windows, coordinate mapping, bedgraph rows)                       *)
(*   scripts/brdu_edu_sliding_windows_from_bam.py  (process_read and the   *)
(*       worker pool of process_bam_and_write_bedgraphs)                   *)
(*   scripts/plot_summary.py                       (track alignment, the   *)
(*       aggregate summary and its boundaries)                             *)
(*   scripts/single_pair_boundary.py               (the boundaries of one  *)
(*       track, plot_each_track)                                           *)
(*                                                                         *)
(* Numbers.  A probability byte b stands for the probability b/255, so a   *)
(* probability is kept as its numerator over 255.  A window frequency is   *)
(* the exact quotient sum/count of such numerators, kept as a reduced      *)
(* fraction [num, den] that stands for num/(255*den).  Floating-point      *)
(* rounding of the Python floats is not modelled.                          *)
(***************************************************************************)
EXTENDS Integers, Sequences, FiniteSets, TLC

VARIABLES
    args,            \* the arguments of one call of a pure function
    ret,             \* what that call returned or raised
    read_data,       \* process_read: the tuple it was handed
    pc,              \* process_read: the statement it is at
    mod_positions,   \* process_read: local of the same name
    window_results,  \* process_read: local of the same name
    abs_results,     \* process_read: local of the same name
    raised,          \* process_read: the exception that ended it, or "none"
    bedgraph,        \* the rows write_bedgraphs wrote: [BrdU |-> rows, EdU |-> rows]
    run_args,        \* pool: the arguments of process_bam_and_write_bedgraphs
    read_chunks,     \* pool: the reads of the BAM file, in file order
    read_data_list,  \* pool: the tuples handed to pool.imap, in order
    taskq,           \* pool: indices of the tasks no worker has taken yet
    worker,          \* pool: worker -> index of the task it runs, 0 when idle
    unsorted,        \* pool: index -> outcome, finished but not yet yielded
    results,         \* pool: the list built from the imap iterator
    pool_state,      \* pool: "mapping", "writing", "done" or "aborted"
    files            \* pool: read name of the path ("all": the shared path) -> rows written

callVars == <<args, ret>>
readVars == <<read_data, pc, mod_positions, window_results, abs_results, raised, bedgraph>>
poolVars == <<run_args, read_chunks, read_data_list, taskq, worker, unsorted, results, pool_state, files>>
vars == <<args, ret, read_data, pc, mod_positions, window_results, abs_results,
          raised, bedgraph, run_args, read_chunks, read_data_list, taskq, worker, unsorted, results,
          pool_state, files>>

(***************************************************************************)
(* Bounds of the model.                                                    *)
(***************************************************************************)
MaxSkips == 2        \* skip counts of one entry
MaxBytes == 4        \* bytes of an ML array
MaxOffset == 6       \* largest key of a position map handed to the aggregator
MaxWindow == 3       \* largest window_size handed to the aggregator
MaxStep == 2         \* largest step_size handed to the aggregator
MaxReads == 3        \* reads of a BAM file
MaxWorkers == 2      \* processes of the pool
MaxRows == 5         \* rows of a paired track

\* The domains the arguments are drawn from.
SkipVals == {0, 1}
ByteVals == {0, 128, 255}
Kinds == {"N+b?", "N+e?", "C+m?"}
EntryCounts == 0..2  \* ';'-separated entries of an MM string
ChannelPairs == {<<255, 0>>, <<0, 255>>, <<128, 128>>}  \* <<BrdU, EdU>> of a decoded offset

(***************************************************************************)
(* Small helpers.                                                          *)
(***************************************************************************)
Max2(a, b) == IF a >= b THEN a ELSE b

MinOf(S) == CHOOSE x \in S : \A y \in S : x <= y

MaxOf(S) == CHOOSE x \in S : \A y \in S : x >= y

RECURSIVE Gcd(_, _)
Gcd(a, b) == IF b = 0 THEN a ELSE Gcd(b, a % b)

\* The quotient n / d of a sum of probability numerators by a count, d > 0.
Quotient(n, d) == LET g == Gcd(n, d) IN [num |-> n \div g, den |-> d \div g]

\* The float 0.0.
Zero == [num |-> 0, den |-> 1]

NotReturned == [done |-> FALSE]

Returned(v) == [done |-> TRUE, raised |-> "none", value |-> v]

Raised(e) == [done |-> TRUE, raised |-> e]

(***************************************************************************)
(* parse_ml_mm.  An MM string is the sequence of its ';'-separated         *)
(* entries; an entry is the sequence of its ','-separated parts, <<>> for  *)
(* the empty string (after a trailing ';'), else <<kind, skip, skip, ..>>. *)
(* The loop state st is [map, used, failed]: mod_positions, the number of  *)
(* bytes the iterator ml_probs has given out, and whether next() raised.   *)
(***************************************************************************)
NewEntry == [BrdU |-> 0, EdU |-> 0, None |-> 255]

\* A plausible bug: a kind that is neither BrdU nor EdU is skipped before
\* its byte is taken.
StorePositionSkipsOther(st, mod_type, abs_position, ML) ==
    IF mod_type \notin {"N+b?", "N+e?"}
    THEN [st EXCEPT !.map = IF abs_position \in DOMAIN st.map THEN st.map
                             ELSE st.map @@ (abs_position :> NewEntry)]
    ELSE IF st.used >= Len(ML)
    THEN [st EXCEPT !.failed = TRUE]
    ELSE LET prob == ML[st.used + 1]
             m0 == IF abs_position \in DOMAIN st.map THEN st.map
                   ELSE st.map @@ (abs_position :> NewEntry)
         IN [map |-> IF mod_type = "N+b?"
                     THEN [m0 EXCEPT ![abs_position].BrdU = prob]
                     ELSE [m0 EXCEPT ![abs_position].EdU = prob],
             used |-> st.used + 1, failed |-> FALSE]

\* A plausible bug: an exhausted iterator yields a default instead of raising.
StorePositionDefaultsByte(st, mod_type, abs_position, ML) ==
    LET prob == IF st.used >= Len(ML) THEN 0 ELSE ML[st.used + 1]
        m0 == IF abs_position \in DOMAIN st.map THEN st.map
              ELSE st.map @@ (abs_position :> NewEntry)
    IN [map |-> IF mod_type = "N+b?"
                THEN [m0 EXCEPT ![abs_position].BrdU = prob]
                ELSE IF mod_type = "N+e?"
                THEN [m0 EXCEPT ![abs_position].EdU = prob]
                ELSE m0,
        used |-> st.used + 1, failed |-> FALSE]

\* Lines 39-47: one position, after abs_position was advanced.
StorePosition(st, mod_type, abs_position, ML) ==
    IF st.used >= Len(ML)
    THEN [st EXCEPT !.failed = TRUE]
    ELSE LET prob == ML[st.used + 1]
             m0 == IF abs_position \in DOMAIN st.map THEN st.map
                   ELSE st.map @@ (abs_position :> NewEntry)
         IN [map |-> IF mod_type = "N+b?"
                     THEN [m0 EXCEPT ![abs_position].BrdU = prob]
                     ELSE IF mod_type = "N+e?"
                     THEN [m0 EXCEPT ![abs_position].EdU = prob]
                     ELSE m0,
             used |-> st.used + 1, failed |-> FALSE]

\* Lines 37-47: the loop over the skips of one entry, from the i-th on.
RECURSIVE DecodeEntry(_, _, _, _, _, _)
DecodeEntry(st, mod_type, rel_positions, i, abs_position, ML) ==
    IF st.failed \/ i > Len(rel_positions)
    THEN st
    ELSE LET a == abs_position + rel_positions[i] + 1
         IN DecodeEntry(StorePosition(st, mod_type, a, ML),
                        mod_type, rel_positions, i + 1, a, ML)

\* Lines 31-47: the loop over the entries, from the e-th on.
RECURSIVE DecodeEntries(_, _, _, _)
DecodeEntries(st, mm_entries, e, ML) ==
    IF st.failed \/ e > Len(mm_entries)
    THEN st
    ELSE LET parts == mm_entries[e]
         IN DecodeEntries(DecodeEntry(st, Head(parts), Tail(parts), 1, 0, ML),
                          mm_entries, e + 1, ML)

\* Lines 49-51.
RecomputeNone(map) ==
    [pos \in DOMAIN map |->
        [map[pos] EXCEPT !.None = Max2(0, 255 - (map[pos].BrdU + map[pos].EdU))]]

IsNonEmptyEntry(entry) == Len(entry) > 0

parse_ml_mm(MM, ML) ==
    LET mm_entries == SelectSeq(MM, IsNonEmptyEntry)
        st == DecodeEntries([map |-> <<>>, used |-> 0, failed |-> FALSE],
                            mm_entries, 1, ML)
    IN IF st.failed
       THEN [done |-> TRUE, raised |-> "StopIteration", used |-> st.used]
       ELSE [done |-> TRUE, raised |-> "none", used |-> st.used,
             value |-> RecomputeNone(st.map)]

(***************************************************************************)
(* compute_sliding_windows.                                                *)
(***************************************************************************)
\* Python's range(start, stop, step) for step > 0.
RECURSIVE Range(_, _, _)
Range(start, stop, step) ==
    IF start >= stop THEN <<>>
    ELSE <<start>> \o Range(start + step, stop, step)

\* Lines 87-91: the loop over range(window_start, window_end), from pos on.
RECURSIVE WindowSums(_, _, _, _)
WindowSums(positions, pos, window_end, acc) ==
    IF pos >= window_end
    THEN acc
    ELSE WindowSums(positions, pos + 1, window_end,
            IF pos \in DOMAIN positions
            THEN [brdu_sum |-> acc.brdu_sum + positions[pos].BrdU,
                  edu_sum |-> acc.edu_sum + positions[pos].EdU,
                  t_count |-> acc.t_count + 1]
            ELSE acc)

\* A plausible bug: the mean is taken over the window's width.
WindowAtDividesByWidth(positions, window_start, window_size) ==
    LET window_end == window_start + window_size
        s == WindowSums(positions, window_start, window_end,
                        [brdu_sum |-> 0, edu_sum |-> 0, t_count |-> 0])
    IN [start |-> window_start, end |-> window_end,
        brdu_freq |-> Quotient(s.brdu_sum, window_size),
        edu_freq |-> Quotient(s.edu_sum, window_size)]

\* Lines 82-100: one window.
WindowAt(positions, window_start, window_size) ==
    LET window_end == window_start + window_size
        s == WindowSums(positions, window_start, window_end,
                        [brdu_sum |-> 0, edu_sum |-> 0, t_count |-> 0])
    IN [start |-> window_start, end |-> window_end,
        brdu_freq |-> IF s.t_count > 0 THEN Quotient(s.brdu_sum, s.t_count) ELSE Zero,
        edu_freq |-> IF s.t_count > 0 THEN Quotient(s.edu_sum, s.t_count) ELSE Zero]

\* A plausible bug: the window size is not taken off the stop of the range.
WindowStartsUpToMaxPos(min_pos, max_pos, window_size, step_size) ==
    Range(min_pos, max_pos + 1, step_size)

\* A plausible bug: the stop of the range is max_pos - window_size.
WindowStartsStopEarly(min_pos, max_pos, window_size, step_size) ==
    Range(min_pos, max_pos - window_size, step_size)

\* Line 81.
WindowStarts(min_pos, max_pos, window_size, step_size) ==
    Range(min_pos, max_pos - window_size + 1, step_size)

compute_sliding_windows(positions, window_size, step_size) ==
    IF DOMAIN positions = {}
    THEN <<>>
    ELSE LET min_pos == MinOf(DOMAIN positions)
             max_pos == MaxOf(DOMAIN positions)
             starts == WindowStarts(min_pos, max_pos, window_size, step_size)
         IN [k \in 1..Len(starts) |-> WindowAt(positions, starts[k], window_size)]

(***************************************************************************)
(* convert_relative_to_abs_positions and write_bedgraphs.                  *)
(***************************************************************************)
\* A plausible bug: the reverse strand is counted from reference_start.
AbsStartFromReferenceStart(reference_start, reference_end, is_reverse, x) ==
    IF ~is_reverse THEN reference_start + 1 + x ELSE reference_start - 1 - x

\* Lines 109-112: the genomic start of the window at relative start x.
AbsStart(reference_start, reference_end, is_reverse, x) ==
    IF ~is_reverse THEN reference_start + 1 + x ELSE reference_end - 1 - x

convert_relative_to_abs_positions(reference_name, reference_start, reference_end, is_reverse, results_in) ==
    IF Len(results_in) = 0
    THEN Raised("IndexError")     \* line 107: window_results[0] of an empty list
    ELSE LET pos_list == [i \in 1..Len(results_in) |-> results_in[i].start]
             window_size == results_in[1].end - results_in[1].start
             starts == [i \in 1..Len(pos_list) |->
                          AbsStart(reference_start, reference_end, is_reverse, pos_list[i])]
         IN Returned([i \in 1..Len(starts) |->
                        [chrom |-> reference_name,
                         start |-> starts[i],
                         end |-> starts[i] + window_size,
                         brdu_freq |-> results_in[i].brdu_freq,
                         edu_freq |-> results_in[i].edu_freq]])

\* f"{freq:.6f}": the frequency rounded to the nearest millionth, as a number
\* of millionths.
Format6(freq) ==
    LET d == 255 * freq.den
        q == (freq.num * 1000000) \div d
        r == (freq.num * 1000000) % d
    IN IF 2 * r >= d THEN q + 1 ELSE q

\* Lines 123-132: the rows of the two files.
write_bedgraphs(new_windows) ==
    [BrdU |-> [i \in 1..Len(new_windows) |->
                 <<new_windows[i].chrom, new_windows[i].start, new_windows[i].end,
                   Format6(new_windows[i].brdu_freq)>>],
     EdU |-> [i \in 1..Len(new_windows) |->
                 <<new_windows[i].chrom, new_windows[i].start, new_windows[i].end,
                   Format6(new_windows[i].edu_freq)>>]]

(***************************************************************************)
(* extract_read_data, process_read and the tuples built for the pool.      *)
(***************************************************************************)
\* Lines 56-69 of the utilities: None (here <<>>) for a read without both tags.
extract_read_data(read, window_size, step_size) ==
    IF ~read.has_MM \/ ~read.has_ML
    THEN <<>>
    ELSE [reference_name |-> read.reference_name,
          reference_start |-> read.reference_start,
          reference_end |-> read.reference_end,
          is_reverse |-> read.is_reverse,
          MM |-> read.MM, ML |-> read.ML,
          window_size |-> window_size, step_size |-> step_size]

IsValidRead(read) == read.has_MM /\ read.has_ML

\* itertools.islice(xs, n); n = -1 stands for None.
Islice(xs, n) == IF n = -1 \/ n >= Len(xs) THEN xs ELSE SubSeq(xs, 1, n)

\* A plausible bug: every tuple is given the name of the first read taken.
TaskOfFirstName(reads, i, window_size, step_size) ==
    extract_read_data(reads[i], window_size, step_size)
        @@ [read_name |-> reads[1].query_name]

\* Line 111: the tuple of the i-th read taken, its query_name appended.
TaskOf(reads, i, window_size, step_size) ==
    extract_read_data(reads[i], window_size, step_size)
        @@ [read_name |-> reads[i].query_name]

\* Lines 107-113.
ReadDataList(chunks, window_size, step_size, num_reads) ==
    LET valid_reads == SelectSeq(chunks, IsValidRead)
        taken == Islice(valid_reads, num_reads)
    IN [i \in 1..Len(taken) |-> TaskOf(taken, i, window_size, step_size)]

\* A plausible bug: the result carries the reference name, not the read's.
ProcessReadResultNamesChrom(rd, windows) == <<rd.reference_name, windows>>

\* Line 73.
ProcessReadResult(rd, windows) == <<rd.read_name, windows>>

process_read(rd) ==
    IF rd = <<>>
    THEN Returned(<<>>)
    ELSE LET parsed == parse_ml_mm(rd.MM, rd.ML)
         IN IF parsed.raised # "none"
            THEN Raised(parsed.raised)
            ELSE LET windows == compute_sliding_windows(parsed.value, rd.window_size,
                                                        rd.step_size)
                     converted == convert_relative_to_abs_positions(
                                      rd.reference_name, rd.reference_start,
                                      rd.reference_end, rd.is_reverse, windows)
                 IN IF converted.raised # "none"
                    THEN Raised(converted.raised)
                    ELSE Returned(ProcessReadResult(rd, converted.value))

\* Lines 126-129: the per-read files, written in the order of results; a
\* later result of the same name overwrites the earlier file.
RECURSIVE WritePerRead(_, _, _)
WritePerRead(res, i, written) ==
    IF i > Len(res) THEN written
    ELSE WritePerRead(res, i + 1,
            [name \in DOMAIN written \cup {res[i][1]} |->
                IF name = res[i][1] THEN write_bedgraphs(res[i][2]) ELSE written[name]])

\* Line 140.
RECURSIVE AllWindowResults(_, _)
AllWindowResults(res, i) ==
    IF i > Len(res) THEN <<>> ELSE res[i][2] \o AllWindowResults(res, i + 1)

(***************************************************************************)
(* plot_summary.py: align_diff_by_minimum.  A track is the sequence of its *)
(* rows; BrdU, EdU and diff are whole numbers of one unit.  diff_roll is   *)
(* kept as the window's sum, that is in units of 1/window_size, which      *)
(* orders the rows of one track as the mean does.                          *)
(*                                                                         *)
(* A float column that can hold np.nan keeps each value as Num(v) or NaN.  *)
(***************************************************************************)
NaN == [nan |-> TRUE]

Num(v) == [nan |-> FALSE, v |-> v]

\* Series.fillna(0), for one value.
FillNa0(a) == IF a.nan THEN 0 ELSE a.v

\* a - b of two floats: missing as soon as one of them is.
Minus(a, b) == IF a.nan \/ b.nan THEN NaN ELSE Num(a.v - b.v)

RECURSIVE SumRange(_, _, _)
SumRange(values, lo, hi) ==
    IF lo > hi THEN 0 ELSE values[lo] + SumRange(values, lo + 1, hi)

\* scipy.ndimage.uniform_filter1d(values, size, mode='nearest') at row i,
\* times size: the window is rows i - size/2 .. i - size/2 + size - 1, a row
\* before the first counting as the first and one after the last as the last.
UniformFilterSum(values, i, size) ==
    LET n == Len(values)
        first == i - (size \div 2)
        last == first + size - 1
        before == IF first < 1 THEN (IF last < 1 THEN size ELSE 1 - first) ELSE 0
        after == IF last > n THEN (IF first > n THEN size ELSE last - n) ELSE 0
    IN before * values[1] + SumRange(values, Max2(first, 1), IF last < n THEN last ELSE n)
       + after * values[n]

\* Series.idxmin(): the scan keeps the earliest row of the smallest value.
RECURSIVE IdxMinFrom(_, _, _)
IdxMinFrom(values, i, best) ==
    IF i > Len(values) THEN best
    ELSE IdxMinFrom(values, i + 1, IF values[i] < values[best] THEN i ELSE best)

\* A plausible bug: the scan keeps the latest row of the smallest value.
IdxMinLast(values) ==
    CHOOSE i \in 1..Len(values) :
        /\ \A j \in 1..Len(values) : values[i] <= values[j]
        /\ \A j \in (i + 1)..Len(values) : values[j] > values[i]

IdxMin(values) == IdxMinFrom(values, 2, 1)

RECURSIVE IdxMaxFrom(_, _, _)
IdxMaxFrom(values, i, best) ==
    IF i > Len(values) THEN best
    ELSE IdxMaxFrom(values, i + 1, IF values[i] > values[best] THEN i ELSE best)

IdxMax(values) == IdxMaxFrom(values, 2, 1)

\* A plausible bug: the comparison is the wrong way round.
ShouldReverseInverted(min_start, max_start) == min_start < max_start

\* Line 76.
ShouldReverse(min_start, max_start) == min_start > max_start

\* Line 77: df["start"].iloc[::-1].reset_index(drop=True).
ReversedColumn(col) == [i \in 1..Len(col) |-> col[Len(col) + 1 - i]]

\* A plausible bug: the origin read before the reversal is used.
AlignOriginBeforeReversal(start_before, start_after, imin) == start_before[imin]

\* Line 78: min_start, read again after the potential reversal.
AlignOrigin(start_before, start_after, imin) == start_after[imin]

align_diff_by_minimum(df, window_size) ==
    LET diff == [i \in 1..Len(df) |-> FillNa0(df[i].diff)]
        diff_roll == [i \in 1..Len(df) |-> UniformFilterSum(diff, i, window_size)]
        start_before == [i \in 1..Len(df) |-> df[i].start]
        imin == IdxMin(diff_roll)
        imax == IdxMax(diff_roll)
        start_after == IF ShouldReverse(start_before[imin], start_before[imax])
                       THEN ReversedColumn(start_before)
                       ELSE start_before
        min_start == AlignOrigin(start_before, start_after, imin)
    IN [i \in 1..Len(df) |->
          [chromosome |-> df[i].chromosome, start |-> start_after[i], end |-> df[i].end,
           BrdU |-> df[i].BrdU, EdU |-> df[i].EdU, diff |-> df[i].diff,
           diff_roll |-> diff_roll[i], x |-> start_after[i] - min_start]]

(***************************************************************************)
(* plot_summary.py: the aggregate summary and its boundaries.  BrdU, EdU   *)
(* and diff of the tracks handed to these functions are whole hundredths;  *)
(* median_diff is kept in two-hundredths, so that the mean of the two      *)
(* middle diffs of an even group stays whole.  A smoothed median_diff is   *)
(* the sum of its 101 window rows, so "< -0.1" reads "< -2020" and         *)
(* "<= 0.01" reads "<= 202".  mean, sd, se and the confidence limits of a  *)
(* summary row, which no boundary reads, are left out.                     *)
(***************************************************************************)
\* The elements of a set of numbers, ascending.
RECURSIVE Ascending(_)
Ascending(S) ==
    IF S = {} THEN <<>> ELSE <<MinOf(S)>> \o Ascending(S \ {MinOf(S)})

\* The values of the rows I of a column, ascending, each as often as it occurs.
RECURSIVE SortedValues(_, _)
SortedValues(values, I) ==
    IF I = {} THEN <<>>
    ELSE LET m == CHOOSE i \in I : \A j \in I : values[i] <= values[j]
         IN <<values[m]>> \o SortedValues(values, I \ {m})

\* Series.median() of the non-missing values, in halves of the values' unit.
Median(sorted) ==
    LET n == Len(sorted)
    IN IF n = 0 THEN NaN
       ELSE IF n % 2 = 1 THEN Num(2 * sorted[(n + 1) \div 2])
       ELSE Num(sorted[n \div 2] + sorted[n \div 2 + 1])

\* Line 98, n="count": the rows of the group whose diff is not missing.
GroupCount(combined_df, x) ==
    Cardinality({i \in 1..Len(combined_df) : combined_df[i].x = x /\ ~combined_df[i].diff.nan})

\* Lines 94-103: groupby("x") keeps one row per x, the keys sorted.
summarize_combined_tracks(combined_df) ==
    LET keys == Ascending({combined_df[i].x : i \in 1..Len(combined_df)})
        diff == [i \in 1..Len(combined_df) |-> FillNa0(combined_df[i].diff)]
        present(x) == {i \in 1..Len(combined_df) :
                          combined_df[i].x = x /\ ~combined_df[i].diff.nan}
    IN [k \in 1..Len(keys) |->
          [x |-> keys[k],
           median_diff |-> Median(SortedValues(diff, present(keys[k]))),
           n |-> GroupCount(combined_df, keys[k])]]

\* Lines 116-119: the row of the first smoothed value below -0.1.
EduStart(summary_df, roll_median) ==
    LET edu_start_idx == {i \in 1..Len(summary_df) : roll_median[i] < -2020}
    IN IF edu_start_idx # {} THEN Num(summary_df[MinOf(edu_start_idx)].x) ELSE NaN

\* A plausible bug: the rows before edu_start are candidates too.
BrduCandidatesAnywhere(summary_df, edu_start) == summary_df

\* Line 123.
BrduCandidates(summary_df, edu_start) ==
    SelectSeq(summary_df, LAMBDA r : r.x >= edu_start)

\* Line 124: a missing median_diff is not > 0.
BrduAbove(brdu_candidates) ==
    SelectSeq(brdu_candidates, LAMBDA r : ~r.median_diff.nan /\ r.median_diff.v > 0)

\* Line 130.
LaterPoints(summary_df, brdu_start) ==
    SelectSeq(summary_df, LAMBDA r : r.x > brdu_start + 100)

\* A plausible bug: the later rows keep the smoothed values of the whole summary.
SmoothedOfWhole(summary_df, later_points) ==
    LET median == [i \in 1..Len(summary_df) |-> FillNa0(summary_df[i].median_diff)]
        skipped == Len(summary_df) - Len(later_points)
    IN [i \in 1..Len(later_points) |-> UniformFilterSum(median, skipped + i, 101)]

\* Line 131: the later rows are smoothed again, on their own.
RollMedianLater(summary_df, later_points) ==
    LET median == [i \in 1..Len(later_points) |-> FillNa0(later_points[i].median_diff)]
    IN [i \in 1..Len(later_points) |-> UniformFilterSum(median, i, 101)]

\* Lines 105-139.  uniform_filter1d of no rows is taken to return no rows.
detect_signal_boundaries(summary_df) ==
    LET median == [i \in 1..Len(summary_df) |-> FillNa0(summary_df[i].median_diff)]
        roll_median == [i \in 1..Len(summary_df) |-> UniformFilterSum(median, i, 101)]
        edu_start == EduStart(summary_df, roll_median)
        brdu_above == IF edu_start.nan THEN <<>>
                      ELSE BrduAbove(BrduCandidates(summary_df, edu_start.v))
        brdu_start == IF brdu_above # <<>> THEN Num(brdu_above[1].x) ELSE NaN
        later_points == IF brdu_start.nan THEN <<>>
                        ELSE LaterPoints(summary_df, brdu_start.v)
        roll_median_later == RollMedianLater(summary_df, later_points)
        brdu_end_candidates == {i \in 1..Len(later_points) : roll_median_later[i] <= 202}
        brdu_end == IF brdu_end_candidates # {}
                    THEN Num(later_points[MinOf(brdu_end_candidates)].x) ELSE NaN
    IN [i \in 1..Len(summary_df) |->
          summary_df[i] @@ [edu_start |-> edu_start, brdu_start |-> brdu_start,
                            brdu_end |-> brdu_end]]

\* Line 158: pd.concat(aligned, ignore_index=True).
RECURSIVE Concat(_)
Concat(frames) ==
    IF frames = <<>> THEN <<>> ELSE Head(frames) \o Concat(Tail(frames))

\* A plausible bug: the lower limit of the clip is exclusive.
ClipAboveLower(summary_df) ==
    SelectSeq(summary_df, LAMBDA r : r.x > -40000 /\ r.x <= 60000)

\* Line 160.
Clip(summary_df) ==
    SelectSeq(summary_df, LAMBDA r : r.x >= -40000 /\ r.x <= 60000)

\* Lines 154-163, from the list read_bedgraph_tracks returned.  pd.concat of
\* an empty list raises ValueError.
make_aggregate_plot_df(replication_tracks, sample_name) ==
    LET aligned == [t \in 1..Len(replication_tracks) |->
                       LET df == align_diff_by_minimum(replication_tracks[t], 500)
                       IN [i \in 1..Len(df) |-> df[i] @@ [id |-> t - 1]]]
        combined_df == Concat(aligned)
        summary_df == Clip(summarize_combined_tracks(combined_df))
        named == [i \in 1..Len(summary_df) |-> summary_df[i] @@ [sample_name |-> sample_name]]
    IN IF replication_tracks = <<>> THEN Raised("ValueError")
       ELSE Returned(detect_signal_boundaries(named))

(***************************************************************************)
(* single_pair_boundary.py: edu_boundaries_detect.  BrdU and diff are in   *)
(* hundredths; smoothed_diff is the sum of its 101 window rows, so         *)
(* "< -0.1" reads "< -1010".  A rolling mean is kept as the sum and the    *)
(* number of the rows of its window.                                       *)
(***************************************************************************)
\* Line 93: sort_values("x"); the x of one track are distinct.
SortByX(df) ==
    LET xs == Ascending({df[i].x : i \in 1..Len(df)})
    IN [k \in 1..Len(xs) |-> df[CHOOSE i \in 1..Len(df) : df[i].x = xs[k]]]

\* Series.rolling(window=201, center=True, min_periods=1) at row i: the rows
\* i - 100 .. i + 100 that exist.
Rolling(values, i) ==
    LET lo == Max2(i - 100, 1)
        hi == IF i + 100 < Len(values) THEN i + 100 ELSE Len(values)
    IN [sum |-> SumRange(values, lo, hi), cnt |-> hi - lo + 1]

\* a > b of two rolling means.
MeanGreater(a, b) == a.sum * b.cnt > b.sum * a.cnt

\* Lines 138-139: diff_smooth <= 0.75 and diff_smooth / BrdU_smooth <= 0.65,
\* the quotient by 0 being -inf, nan or +inf as the floats make it.
DropCondition(diff_smooth, BrdU_smooth) ==
    /\ diff_smooth.sum <= 75 * diff_smooth.cnt
    /\ IF BrdU_smooth.sum > 0 THEN 100 * diff_smooth.sum <= 65 * BrdU_smooth.sum
       ELSE IF BrdU_smooth.sum = 0 THEN diff_smooth.sum < 0
       ELSE 100 * diff_smooth.sum >= 65 * BrdU_smooth.sum

\* Line 132: idxmax, the first row of the window with the largest BrdU_smooth.
BrduPeak(window, BrdU_smooth) ==
    CHOOSE i \in window :
        /\ \A j \in window : ~MeanGreater(BrdU_smooth[j], BrdU_smooth[i])
        /\ \A j \in window : j < i => MeanGreater(BrdU_smooth[i], BrdU_smooth[j])

\* Line 136.
DropZone(df_filtered, brdu_peak_x) ==
    {i \in 1..Len(df_filtered) : df_filtered[i].x > brdu_peak_x}

\* Lines 118-143, brdu_start being defined.
BrduEnd(summary_df, brdu_start) ==
    LET df_filtered == SelectSeq(summary_df, LAMBDA r : ~r.diff.nan /\ ~r.BrdU.nan)
        BrdU == [i \in 1..Len(df_filtered) |-> df_filtered[i].BrdU.v]
        diff == [i \in 1..Len(df_filtered) |-> df_filtered[i].diff.v]
        BrdU_smooth == [i \in 1..Len(df_filtered) |-> Rolling(BrdU, i)]
        diff_smooth == [i \in 1..Len(df_filtered) |-> Rolling(diff, i)]
        window_df == {i \in 1..Len(df_filtered) :
                         /\ df_filtered[i].x > brdu_start
                         /\ df_filtered[i].x <= brdu_start + 15000}
        brdu_peak_x == df_filtered[BrduPeak(window_df, BrdU_smooth)].x
        drop_zone == {i \in DropZone(df_filtered, brdu_peak_x) :
                         DropCondition(diff_smooth[i], BrdU_smooth[i])}
    IN IF window_df = {} THEN NaN
       ELSE IF drop_zone = {} THEN NaN
       ELSE Num(df_filtered[MinOf(drop_zone)].x)

\* Lines 91-151.
edu_boundaries_detect(df) ==
    LET summary_df == SortByX(df)
        diff == [i \in 1..Len(summary_df) |-> FillNa0(summary_df[i].diff)]
        smoothed_diff == [i \in 1..Len(summary_df) |-> UniformFilterSum(diff, i, 101)]
        edu_idx == {i \in 1..Len(summary_df) :
                       /\ smoothed_diff[i] < -1010
                       /\ summary_df[i].x < 0
                       /\ summary_df[i].x > -10000}
        edu_start == IF edu_idx # {} THEN Num(summary_df[MinOf(edu_idx)].x) ELSE NaN
        brdu_above == IF edu_start.nan THEN {}
                      ELSE {i \in 1..Len(summary_df) :
                               /\ summary_df[i].x >= edu_start.v
                               /\ summary_df[i].x > 0
                               /\ ~summary_df[i].diff.nan
                               /\ summary_df[i].diff.v > 0}
        brdu_start == IF brdu_above # {} THEN Num(summary_df[MinOf(brdu_above)].x) ELSE NaN
        brdu_end == IF brdu_start.nan THEN NaN ELSE BrduEnd(summary_df, brdu_start.v)
    IN [i \in 1..Len(summary_df) |->
          summary_df[i] @@ [smoothed_diff |-> smoothed_diff[i], edu_start |-> edu_start,
                            brdu_start |-> brdu_start, brdu_end |-> brdu_end]]

(***************************************************************************)
(* single_pair_boundary.py: plot_each_track, from the list that            *)
(* read_bedgraph_tracks returned.  result.csv is the rows written to       *)
(* edu_brdu_summary_new.csv, result.plots the tracks a plot was saved for. *)
(* A speed is kept as the fraction [num, den] it is the quotient of.       *)
(***************************************************************************)
\* plot_summary.py lines 51-58: the columns of a paired DataFrame.
FrameColumns == <<"chromosome", "start", "end", "BrdU", "EdU", "diff">>

\* plot_summary.py lines 59-60: what read_bedgraph_tracks appends for a pair.
\* Line 59 appends the DataFrame itself; the line that appends the tuple
\* (sample_id, df) is commented out.
PairedItem(sample_id, df) == [type |-> "DataFrame", columns |-> FrameColumns, rows |-> df]

\* Line 23, "(sample_id, df) = item": the item is iterated and must yield two
\* values.  A tuple yields its elements, a DataFrame its column labels.
Unpack(item) ==
    LET yielded == IF item.type = "tuple" THEN <<item.sample_id, item.rows>>
                   ELSE item.columns
    IN IF Len(yielded) = 2 THEN Returned(yielded) ELSE Raised("ValueError")

\* a + b of two floats.
Plus(a, b) == IF a.nan \/ b.nan THEN NaN ELSE Num(a.v + b.v)

\* a / d of a float by a whole number.
Over(a, d) == IF a.nan THEN NaN ELSE [nan |-> FALSE, num |-> a.v, den |-> d]

\* Line 63: the track is left out of the CSV.
Skipped(edu_start, brdu_end, read_start, read_end) ==
    \/ edu_start.nan
    \/ edu_start.v - read_start < 1500
    \/ brdu_end.nan
    \/ (IF brdu_end.v - read_end < 0 THEN read_end - brdu_end.v ELSE brdu_end.v - read_end) < 1500

\* Lines 30-79: one pass of the loop; the plot is saved before the CSV decision.
TrackEntry(sample_id, df) ==
    LET aligned_df == align_diff_by_minimum(df, 500)
        read_start == MinOf({aligned_df[i].x : i \in 1..Len(aligned_df)})
        read_end == MaxOf({aligned_df[i].x : i \in 1..Len(aligned_df)})
        detected == edu_boundaries_detect(aligned_df)
        edu_start == detected[1].edu_start
        brdu_start == detected[1].brdu_start
        brdu_end == detected[1].brdu_end
        edu_track == Minus(brdu_start, edu_start)
        brdu_track == Minus(brdu_end, brdu_start)
    IN IF Skipped(edu_start, brdu_end, read_start, read_end) THEN <<>>
       ELSE << [read_id |-> sample_id, edu_start |-> edu_start, brdu_start |-> brdu_start,
                brdu_end |-> brdu_end, edu_track |-> edu_track, brdu_track |-> brdu_track,
                edu_speed |-> Over(edu_track, 10000), brdu_speed |-> Over(brdu_track, 10000),
                Fork_track |-> Plus(edu_track, brdu_track),
                Fork_speed |-> Over(Plus(edu_track, brdu_track), 20000)] >>

\* Lines 23-79: the loop from item i on.  An exception leaves the function
\* before line 85, so no CSV is written.
RECURSIVE TrackLoop(_, _, _)
TrackLoop(paired_tracks, i, result) ==
    IF i > Len(paired_tracks) THEN Returned(result)
    ELSE LET unpacked == Unpack(paired_tracks[i])
         IN IF unpacked.raised # "none" THEN unpacked
            ELSE TrackLoop(paired_tracks, i + 1,
                           [csv |-> result.csv \o TrackEntry(unpacked.value[1], unpacked.value[2]),
                            plots |-> Append(result.plots, unpacked.value[1])])

\* Lines 15-88.
plot_each_track(paired_tracks) == TrackLoop(paired_tracks, 1, [csv |-> <<>>, plots |-> <<>>])

(***************************************************************************)
(* Calls of the pure functions on drawn arguments.                         *)
(***************************************************************************)
SkipSeqs == UNION {[1..n -> SkipVals] : n \in 0..MaxSkips}

Entries == {<<>>} \cup {<<k>> \o s : k \in Kinds, s \in SkipSeqs}

\* The example of the specification: skips [0,2,1], bytes [255,128,0].
ExampleMM == << <<"N+b?", 0, 2, 1>>, <<>> >>

ExampleML == <<255, 128, 0>>

TagStrings == UNION {[1..n -> Entries] : n \in EntryCounts}

ByteArrays == UNION {[1..n -> ByteVals] : n \in 0..MaxBytes}

IdleRead ==
    /\ read_data = <<>>
    /\ pc = "idle"
    /\ mod_positions = <<>>
    /\ window_results = <<>>
    /\ abs_results = <<>>
    /\ raised = "none"
    /\ bedgraph = [BrdU |-> <<>>, EdU |-> <<>>]

IdlePool ==
    /\ run_args = <<>>
    /\ read_chunks = <<>>
    /\ read_data_list = <<>>
    /\ taskq = <<>>
    /\ worker = <<>>
    /\ unsorted = <<>>
    /\ results = <<>>
    /\ pool_state = "idle"
    /\ files = <<>>

InitParse ==
    /\ \/ args \in {[fn |-> "parse_ml_mm", MM |-> mm, ML |-> ml] :
                        mm \in TagStrings, ml \in ByteArrays}
       \/ args \in {[fn |-> "parse_ml_mm", MM |-> ExampleMM, ML |-> ml] :
                        ml \in {ExampleML, SubSeq(ExampleML, 1, 2)}}
    /\ ret = NotReturned
    /\ IdleRead
    /\ IdlePool

CallParseMlMm ==
    /\ args.fn = "parse_ml_mm"
    /\ ~ret.done
    /\ ret' = parse_ml_mm(args.MM, args.ML)
    /\ UNCHANGED <<args, readVars, poolVars>>

SpecParse == InitParse /\ [][CallParseMlMm]_vars

(***************************************************************************)
(* What the decoder is to compute, stated over the positions of the tag    *)
(* string rather than as a loop.  A site <<g, j>> is the j-th skip of the  *)
(* g-th non-empty entry.                                                   *)
(***************************************************************************)
TagGroups(MM) == SelectSeq(MM, IsNonEmptyEntry)

RECURSIVE SumOfSkipsPlusOne(_, _)
SumOfSkipsPlusOne(skips, j) ==
    IF j = 0 THEN 0 ELSE SumOfSkipsPlusOne(skips, j - 1) + skips[j] + 1

RECURSIVE PositionsBefore(_, _)
PositionsBefore(groups, g) ==
    IF g <= 1 THEN 0
    ELSE PositionsBefore(groups, g - 1) + Len(Tail(groups[g - 1]))

TotalPositions(MM) ==
    LET groups == TagGroups(MM) IN PositionsBefore(groups, Len(groups) + 1)

TagSites(MM) ==
    LET groups == TagGroups(MM)
    IN {<<g, j>> \in (1..Len(groups)) \X (1..(MaxSkips + 3)) : j <= Len(Tail(groups[g]))}

SiteOffset(MM, site) == SumOfSkipsPlusOne(Tail(TagGroups(MM)[site[1]]), site[2])

SiteKind(MM, site) == Head(TagGroups(MM)[site[1]])

\* The place of a site in document order, which is the place of its byte.
SiteOrder(MM, site) == PositionsBefore(TagGroups(MM), site[1]) + site[2]

\* The numerator a channel holds at an offset: the byte of the last site of
\* that kind at that offset, 0 when there is none.
ChannelAt(MM, ML, kind, offset) ==
    LET S == {s \in TagSites(MM) : SiteKind(MM, s) = kind /\ SiteOffset(MM, s) = offset}
    IN IF S = {} THEN 0
       ELSE ML[MaxOf({SiteOrder(MM, s) : s \in S})]

ExampleMap ==
    (1 :> [BrdU |-> 255, EdU |-> 0, None |-> 0]) @@
    (4 :> [BrdU |-> 128, EdU |-> 0, None |-> 127]) @@
    (6 :> [BrdU |-> 0, EdU |-> 0, None |-> 255])

\* C1: with at least as many bytes as positions, parse_ml_mm returns the map
\* whose keys are the cumulative sums of (skip + 1) within each group, whose
\* BrdU and EdU hold the byte (over 255) that document order assigns to the
\* position of kind 'N+b?' and 'N+e?' there, 0 where there is none, positions of
\* another kind taking their byte and their key but storing nothing, and whose
\* None is max(0, 1 - BrdU - EdU); skips [0,2,1] with bytes [255,128,0] give
\* offsets 1, 4, 6 with BrdU 255/255, 128/255, 0.
C1_DecodedMap ==
    (args.fn = "parse_ml_mm" /\ ret.done /\ Len(args.ML) >= TotalPositions(args.MM))
    => /\ ret.raised = "none"
       /\ DOMAIN ret.value = {SiteOffset(args.MM, s) : s \in TagSites(args.MM)}
       /\ \A o \in DOMAIN ret.value :
            /\ ret.value[o].BrdU = ChannelAt(args.MM, args.ML, "N+b?", o)
            /\ ret.value[o].EdU = ChannelAt(args.MM, args.ML, "N+e?", o)
            /\ ret.value[o].None = Max2(0, 255 - ret.value[o].BrdU - ret.value[o].EdU)
       /\ (args.MM = ExampleMM /\ args.ML = ExampleML) => ret.value = ExampleMap

\* C1 witness: the example of the claim was decoded.
C1_Witness ==
    /\ args.fn = "parse_ml_mm"
    /\ ret.done
    /\ args.MM = ExampleMM
    /\ args.ML = ExampleML
    /\ ret.raised = "none"
    /\ DOMAIN ret.value = {1, 4, 6}

\* C7: with fewer bytes than positions, parse_ml_mm raises, returns no map,
\* and raises at the first position that finds no byte: after exactly
\* Len(ML) positions were decoded.
C7_ShortBytesRaise ==
    (args.fn = "parse_ml_mm" /\ ret.done /\ Len(args.ML) < TotalPositions(args.MM))
    => /\ ret.raised = "StopIteration"
       /\ "value" \notin DOMAIN ret
       /\ ret.used = Len(args.ML)

\* C7 witness: a call that decoded at least one position and then ran out.
C7_Witness ==
    /\ args.fn = "parse_ml_mm"
    /\ ret.done
    /\ Len(args.ML) >= 1
    /\ Len(args.ML) < TotalPositions(args.MM)
    /\ ret.raised = "StopIteration"

(***************************************************************************)
(* compute_sliding_windows on drawn position maps.  A map the decoder can  *)
(* return has keys >= 1 and None = max(0, 1 - BrdU - EdU).                 *)
(***************************************************************************)
DecodedEntry(pair) ==
    [BrdU |-> pair[1], EdU |-> pair[2], None |-> Max2(0, 255 - (pair[1] + pair[2]))]

PositionMaps ==
    UNION {[D -> {DecodedEntry(c) : c \in ChannelPairs}] : D \in SUBSET (1..MaxOffset)}

InitWindows ==
    /\ args \in {[fn |-> "compute_sliding_windows", mod_positions |-> m,
                  window_size |-> w, step_size |-> s] :
                    m \in PositionMaps, w \in 1..MaxWindow, s \in 1..MaxStep}
    /\ ret = NotReturned
    /\ IdleRead
    /\ IdlePool

CallComputeSlidingWindows ==
    /\ args.fn = "compute_sliding_windows"
    /\ ~ret.done
    /\ ret' = Returned(compute_sliding_windows(args.mod_positions, args.window_size,
                                               args.step_size))
    /\ UNCHANGED <<args, readVars, poolVars>>

SpecWindows == InitWindows /\ [][CallComputeSlidingWindows]_vars

RECURSIVE SumOver(_, _, _)
SumOver(map, S, channel) ==
    IF S = {} THEN 0
    ELSE LET o == CHOOSE x \in S : TRUE
         IN map[o][channel] + SumOver(map, S \ {o}, channel)

\* The window starts the claim names: min_pos + k*step_size, k >= 0, up to
\* max_pos - window_size.
ClaimedStarts(map, window_size, step_size) ==
    IF DOMAIN map = {} THEN {}
    ELSE LET min_pos == MinOf(DOMAIN map)
             max_pos == MaxOf(DOMAIN map)
         IN {p \in min_pos..max_pos :
                /\ \E k \in 0..(max_pos - min_pos) : p = min_pos + k * step_size
                /\ p <= max_pos - window_size}

\* C3: the windows start exactly at min_pos + k*step_size <= max_pos -
\* window_size, in ascending order step_size apart, each ends at start +
\* window_size, and there is none when min_pos + window_size > max_pos or the
\* map is empty.
C3_WindowStarts ==
    (args.fn = "compute_sliding_windows" /\ ret.done)
    => LET w == ret.value
           map == args.mod_positions
           claimed == ClaimedStarts(map, args.window_size, args.step_size)
       IN /\ {w[i].start : i \in 1..Len(w)} = claimed
          /\ Len(w) = Cardinality(claimed)
          /\ \A i \in 1..Len(w) : w[i].end = w[i].start + args.window_size
          /\ \A i \in 1..(Len(w) - 1) : w[i + 1].start = w[i].start + args.step_size
          /\ (DOMAIN map = {}) => w = <<>>
          /\ (DOMAIN map # {} /\ MinOf(DOMAIN map) + args.window_size > MaxOf(DOMAIN map))
                => w = <<>>

\* C3 witness: several windows, more than one offset apart, the last of them
\* starting exactly at max_pos - window_size.
C3_Witness ==
    /\ args.fn = "compute_sliding_windows"
    /\ ret.done
    /\ args.step_size >= 2
    /\ Len(ret.value) >= 2
    /\ ret.value[Len(ret.value)].start = MaxOf(DOMAIN args.mod_positions) - args.window_size

\* C4: a window's frequency is, per channel, the sum of the probabilities at
\* the map's offsets in [start, end) over their number, 0.0 when there is no
\* such offset, and lies in [0, 1].
C4_WindowFrequencies ==
    (args.fn = "compute_sliding_windows" /\ ret.done)
    => \A i \in 1..Len(ret.value) :
          LET w == ret.value[i]
              map == args.mod_positions
              S == {o \in DOMAIN map : w.start <= o /\ o < w.end}
              n == Cardinality(S)
          IN /\ (S = {}) => (w.brdu_freq = Zero /\ w.edu_freq = Zero)
             /\ (S # {}) =>
                   /\ w.brdu_freq.num * n = SumOver(map, S, "BrdU") * w.brdu_freq.den
                   /\ w.edu_freq.num * n = SumOver(map, S, "EdU") * w.edu_freq.den
             /\ w.brdu_freq.den > 0 /\ w.edu_freq.den > 0
             /\ 0 <= w.brdu_freq.num /\ w.brdu_freq.num <= 255 * w.brdu_freq.den
             /\ 0 <= w.edu_freq.num /\ w.edu_freq.num <= 255 * w.edu_freq.den

\* C4 witness: one result holds a window with no map offset and a window
\* wider than the two or more offsets it averages.
C4_Witness ==
    /\ args.fn = "compute_sliding_windows"
    /\ ret.done
    /\ \E i, j \in 1..Len(ret.value) :
          LET S(w) == {o \in DOMAIN args.mod_positions : w.start <= o /\ o < w.end}
          IN /\ S(ret.value[i]) = {}
             /\ Cardinality(S(ret.value[j])) >= 2
             /\ Cardinality(S(ret.value[j])) < args.window_size
             /\ ret.value[j].brdu_freq.num > 0
             /\ ret.value[j].edu_freq.num > 0

(***************************************************************************)
(* process_read on one read, statement by statement, followed by the       *)
(* write_bedgraphs call that process_bam_and_write_bedgraphs makes on what *)
(* it returned.                                                            *)
(***************************************************************************)
\* <<MM, ML>> of the reads drawn.
ReadTags ==
    { << << <<"N+b?", 9, 4>>, <<>> >>, <<204, 102>> >>,
      << << <<"N+b?", 9, 4, 14>>, <<>> >>, <<204, 102, 255>> >>,
      << << <<"N+b?", 49, 24>>, <<"N+e?", 49, 4>>, <<>> >>, <<255, 102, 204, 128>> >>,
      << << <<"N+b?", 9, 4>>, <<>> >>, <<204>> >>,
      << << <<"N+b?", 0>>, <<>> >>, <<255>> >>,
      << <<>>, <<>> >> }

\* <<reference_start, reference_end>> of the reads drawn.
ReadSpans == {<<100, 1100>>, <<1000, 2000>>}

ReadWindowSizes == {5, 20}

ReadStepSizes == {5, 10}

ReadInputs ==
    {[reference_name |-> "chr1", reference_start |-> span[1], reference_end |-> span[2],
      is_reverse |-> rev, MM |-> tag[1], ML |-> tag[2],
      window_size |-> w, step_size |-> s, read_name |-> "read1"] :
        span \in ReadSpans, rev \in BOOLEAN, tag \in ReadTags,
        w \in ReadWindowSizes, s \in ReadStepSizes}

IdleCall ==
    /\ args = [fn |-> "none"]
    /\ ret = NotReturned

InitRead ==
    /\ read_data \in ReadInputs
    /\ pc = "parse"
    /\ mod_positions = <<>>
    /\ window_results = <<>>
    /\ abs_results = <<>>
    /\ raised = "none"
    /\ bedgraph = [BrdU |-> <<>>, EdU |-> <<>>]
    /\ IdleCall
    /\ IdlePool

\* Line 68.
ReadParse ==
    /\ pc = "parse"
    /\ LET r == parse_ml_mm(read_data.MM, read_data.ML)
       IN IF r.raised = "none"
          THEN /\ mod_positions' = r.value
               /\ pc' = "windows"
               /\ raised' = raised
          ELSE /\ mod_positions' = mod_positions
               /\ pc' = "failed"
               /\ raised' = r.raised
    /\ UNCHANGED <<read_data, window_results, abs_results, bedgraph, callVars, poolVars>>

\* Line 69.
ReadWindows ==
    /\ pc = "windows"
    /\ window_results' = compute_sliding_windows(mod_positions, read_data.window_size,
                                                 read_data.step_size)
    /\ pc' = "convert"
    /\ UNCHANGED <<read_data, mod_positions, abs_results, raised, bedgraph,
                   callVars, poolVars>>

\* Lines 70-73.
ReadConvert ==
    /\ pc = "convert"
    /\ LET r == convert_relative_to_abs_positions(
                    read_data.reference_name, read_data.reference_start,
                    read_data.reference_end, read_data.is_reverse, window_results)
       IN IF r.raised = "none"
          THEN /\ abs_results' = r.value
               /\ pc' = "returned"
               /\ raised' = raised
          ELSE /\ abs_results' = abs_results
               /\ pc' = "failed"
               /\ raised' = r.raised
    /\ UNCHANGED <<read_data, mod_positions, window_results, bedgraph, callVars, poolVars>>

\* process_bam_and_write_bedgraphs, line 129, on the windows of this read.
ReadWrite ==
    /\ pc = "returned"
    /\ bedgraph' = write_bedgraphs(abs_results)
    /\ pc' = "written"
    /\ UNCHANGED <<read_data, mod_positions, window_results, abs_results, raised,
                   callVars, poolVars>>

NextRead == ReadParse \/ ReadWindows \/ ReadConvert \/ ReadWrite

SpecRead == InitRead /\ [][NextRead]_vars

\* The decoded map of the end-to-end scenario: BrdU 0.8 at offset 10 and 0.4
\* at offset 15, no EdU.
ScenarioMap ==
    (10 :> [BrdU |-> 204, EdU |-> 0, None |-> 51]) @@
    (15 :> [BrdU |-> 102, EdU |-> 0, None |-> 153])

InScenario ==
    /\ pc \notin {"parse", "windows"}
    /\ mod_positions = ScenarioMap
    /\ read_data.window_size = 20
    /\ read_data.step_size = 10
    /\ ~read_data.is_reverse
    /\ read_data.reference_start = 100

\* C2, as the specification states it: the scenario ends with the one window
\* [10, 30, 0.6, 0.0] and the one BrdU row 111 131 0.600000.
C2_ScenarioAsStated ==
    (InScenario /\ pc \in {"failed", "written"})
    => /\ window_results = << [start |-> 10, end |-> 30,
                               brdu_freq |-> [num |-> 153, den |-> 1],
                               edu_freq |-> Zero] >>
       /\ bedgraph.BrdU = << <<"chr1", 111, 131, 600000>> >>

\* C2, amended: in the scenario compute_sliding_windows returns no window
\* (10 + 20 > 15) and no bedgraph row is ever written.
C2_ScenarioNoWindow ==
    InScenario
    => /\ window_results = <<>>
       /\ pc # "written"
       /\ bedgraph = [BrdU |-> <<>>, EdU |-> <<>>]

\* C2 witness: the scenario ran to its end.
C2_Witness ==
    /\ InScenario
    /\ pc = "failed"
    /\ window_results = <<>>

\* C5: convert_relative_to_abs_positions returns one window per input window,
\* in order, with the same frequencies, starting at reference_start + 1 +
\* relative start (forward) or reference_end - 1 - relative start (reverse)
\* and ending window_size later, window_size being the first window's span.
C5_GenomicWindows ==
    (pc \in {"returned", "written"})
    => /\ Len(abs_results) = Len(window_results)
       /\ \A i \in 1..Len(window_results) :
            LET w == window_results[i]
                g == abs_results[i]
            IN /\ g.brdu_freq = w.brdu_freq
               /\ g.edu_freq = w.edu_freq
               /\ ~read_data.is_reverse => g.start = read_data.reference_start + 1 + w.start
               /\ read_data.is_reverse => g.start = read_data.reference_end - 1 - w.start
               /\ g.end = g.start + (window_results[1].end - window_results[1].start)
               /\ (~read_data.is_reverse /\ read_data.reference_start = 1000 /\ w.start = 50)
                     => g.start = 1051
               /\ (read_data.is_reverse /\ read_data.reference_end = 2000 /\ w.start = 50)
                     => g.start = 1949

\* C5 witness: a reverse-strand read with reference_end 2000 whose several
\* windows include the one at relative start 50, mapped to 1949.
C5_Witness ==
    /\ pc = "returned"
    /\ read_data.is_reverse
    /\ read_data.reference_end = 2000
    /\ Len(abs_results) >= 2
    /\ window_results[1].start = 50
    /\ abs_results[1].start = 1949
    /\ abs_results[2].start < abs_results[1].start

\* C6: process_read never hands convert_relative_to_abs_positions an empty
\* window sequence, and no precondition failure (the IndexError of line 107)
\* occurs.
C6_NeverConvertsEmpty ==
    /\ ~(pc = "convert" /\ window_results = <<>>)
    /\ raised # "IndexError"

(***************************************************************************)
(* process_bam_and_write_bedgraphs: the pool.  pool.imap hands the tuples  *)
(* to the workers in order; each worker takes one at a time, runs          *)
(* process_read and puts the outcome back under the tuple's index; the     *)
(* iterator yields the outcomes in index order, re-raising an exception a  *)
(* worker caught.  Iterating it inside tqdm's generator, a re-raised       *)
(* StopIteration ends the loop, any other exception leaves list().         *)
(***************************************************************************)
BamRead(name, tag, rev, tagged) ==
    [query_name |-> name, has_MM |-> tagged, has_ML |-> tagged,
     reference_name |-> "chr1", reference_start |-> 100, reference_end |-> 1100,
     is_reverse |-> rev, MM |-> tag[1], ML |-> tag[2]]

BamReads ==
    { BamRead("readA", << << <<"N+b?", 9, 4, 14>>, <<>> >>, <<204, 102, 255>> >>, FALSE, TRUE),
      BamRead("readB", << << <<"N+b?", 49, 24>>, <<"N+e?", 49, 4>>, <<>> >>,
                          <<255, 102, 204, 128>> >>, TRUE, TRUE),
      BamRead("readA", << << <<"N+e?", 9, 9>>, <<>> >>, <<128, 128>> >>, TRUE, TRUE),
      BamRead("readC", << << <<"N+b?", 9, 4>>, <<>> >>, <<204>> >>, FALSE, TRUE),
      BamRead("readD", << << <<"N+b?", 0>>, <<>> >>, <<255>> >>, FALSE, TRUE),
      BamRead("readF", << <<>>, <<>> >>, FALSE, FALSE) }

InitPool ==
    /\ run_args \in [window_size : {5}, step_size : {5}, num_reads : {-1, 2},
                     num_processes : 1..MaxWorkers, output_per_read : BOOLEAN]
    /\ read_chunks \in UNION {[1..n -> BamReads] : n \in 1..MaxReads}
    /\ read_data_list = ReadDataList(read_chunks, run_args.window_size,
                                     run_args.step_size, run_args.num_reads)
    /\ taskq = [i \in 1..Len(read_data_list) |-> i]
    /\ worker = [w \in 1..run_args.num_processes |-> 0]
    /\ unsorted = <<>>
    /\ results = <<>>
    /\ pool_state = "mapping"
    /\ files = <<>>
    /\ IdleCall
    /\ IdleRead

\* A worker takes the next tuple from the task queue.
PoolTake(w) ==
    /\ pool_state = "mapping"
    /\ worker[w] = 0
    /\ taskq # <<>>
    /\ worker' = [worker EXCEPT ![w] = Head(taskq)]
    /\ taskq' = Tail(taskq)
    /\ UNCHANGED <<run_args, read_chunks, read_data_list, unsorted, results,
                   pool_state, files, callVars, readVars>>

\* A worker runs process_read on its tuple and hands the outcome back.
PoolFinish(w) ==
    /\ pool_state = "mapping"
    /\ worker[w] # 0
    /\ unsorted' = unsorted @@ (worker[w] :> process_read(read_data_list[worker[w]]))
    /\ worker' = [worker EXCEPT ![w] = 0]
    /\ UNCHANGED <<run_args, read_chunks, read_data_list, taskq, results,
                   pool_state, files, callVars, readVars>>

\* Lines 116-123: list(tqdm(pool.imap(...))) takes the next outcome in order.
PoolYield ==
    /\ pool_state = "mapping"
    /\ Len(results) + 1 \in DOMAIN unsorted
    /\ LET o == unsorted[Len(results) + 1]
       IN /\ results' = IF o.raised = "none" THEN Append(results, o.value) ELSE results
          /\ pool_state' = IF o.raised = "none" THEN pool_state
                           ELSE IF o.raised = "StopIteration" THEN "writing"
                           ELSE "aborted"
    /\ unsorted' = [i \in DOMAIN unsorted \ {Len(results) + 1} |-> unsorted[i]]
    /\ UNCHANGED <<run_args, read_chunks, read_data_list, taskq, worker, files,
                   callVars, readVars>>

\* The iterator is exhausted: every tuple's result was yielded.
PoolExhausted ==
    /\ pool_state = "mapping"
    /\ Len(results) = Len(read_data_list)
    /\ pool_state' = "writing"
    /\ UNCHANGED <<run_args, read_chunks, read_data_list, taskq, worker, unsorted,
                   results, files, callVars, readVars>>

\* Lines 125-141.
PoolWrite ==
    /\ pool_state = "writing"
    /\ files' = IF run_args.output_per_read
                THEN WritePerRead(results, 1, <<>>)
                ELSE [name \in {"all"} |-> write_bedgraphs(AllWindowResults(results, 1))]
    /\ pool_state' = "done"
    /\ UNCHANGED <<run_args, read_chunks, read_data_list, taskq, worker, unsorted,
                   results, callVars, readVars>>

NextPool ==
    \/ \E w \in DOMAIN worker : PoolTake(w)
    \/ \E w \in DOMAIN worker : PoolFinish(w)
    \/ PoolYield
    \/ PoolExhausted
    \/ PoolWrite

SpecPool == InitPool /\ [][NextPool]_vars

\* The reads of the BAM file that reach the pool, in order.
ReadsTaken ==
    Islice(SelectSeq(read_chunks, IsValidRead), run_args.num_reads)

\* The genomic windows of a read, from its own tags and reference context.
WindowsOfRead(read) ==
    convert_relative_to_abs_positions(
        read.reference_name, read.reference_start, read.reference_end, read.is_reverse,
        compute_sliding_windows(parse_ml_mm(read.MM, read.ML).value,
                                run_args.window_size, run_args.step_size)).value

\* C8: under every interleaving of the workers, the i-th result delivered
\* pairs the identifier of the i-th read taken with the windows computed from
\* that read's own tags and reference context, and each per-read file holds
\* the windows of a delivered read that bears the file's name.
C8_ResultsKeepTheirRead ==
    /\ pool_state # "idle" =>
          /\ Len(results) <= Len(ReadsTaken)
          /\ \A i \in 1..Len(results) :
                /\ results[i][1] = ReadsTaken[i].query_name
                /\ results[i][2] = WindowsOfRead(ReadsTaken[i])
    /\ (pool_state = "done" /\ run_args.output_per_read) =>
          \A name \in DOMAIN files :
             \E i \in 1..Len(results) :
                /\ ReadsTaken[i].query_name = name
                /\ files[name] = write_bedgraphs(WindowsOfRead(ReadsTaken[i]))

\* C8 witness: the first result was delivered while the third read's result,
\* finished before the second's, waits its turn.
C8_Witness ==
    /\ pool_state = "mapping"
    /\ Len(results) = 1
    /\ results[1] = <<ReadsTaken[1].query_name, WindowsOfRead(ReadsTaken[1])>>
    /\ 3 \in DOMAIN unsorted
    /\ 2 \notin DOMAIN unsorted
    /\ \E w \in DOMAIN worker : worker[w] = 2
    /\ ReadsTaken[3].query_name # ReadsTaken[1].query_name

\* Two reads of different names were delivered and their files written.
C8_FilesWritten ==
    /\ pool_state = "done"
    /\ run_args.output_per_read
    /\ Len(results) >= 2
    /\ results[1][1] # results[2][1]
    /\ DOMAIN files = {results[i][1] : i \in 1..Len(results)}

(***************************************************************************)
(* align_diff_by_minimum on drawn paired tracks.  A paired track is what   *)
(* read_bedgraph_tracks builds from the two files of one read: its starts  *)
(* run step_size apart, upwards for a forward read and downwards for a     *)
(* reverse one, end = start + window_size, diff = BrdU - EdU.              *)
(***************************************************************************)
SignalPairs == {<<0, 1>>, <<1, 0>>, <<0, 0>>}   \* <<BrdU, EdU>> of a row

AlignWindowSizes == {2, 3, 500}                  \* 500 is the default every caller uses

TrackRow(k, n, descending, pair) ==
    LET start == IF descending THEN 100 + 10 * (n - k) ELSE 100 + 10 * (k - 1)
    IN [chromosome |-> "chr1", start |-> start, end |-> start + 20,
        BrdU |-> Num(pair[1]), EdU |-> Num(pair[2]),
        diff |-> Minus(Num(pair[1]), Num(pair[2]))]

PairedTracks ==
    UNION {{[k \in 1..n |-> TrackRow(k, n, descending, signal[k])] :
                signal \in [1..n -> SignalPairs], descending \in BOOLEAN} :
           n \in 1..MaxRows}

InitAlign ==
    /\ args \in {[fn |-> "align_diff_by_minimum", df |-> t, window_size |-> w] :
                    t \in PairedTracks, w \in AlignWindowSizes}
    /\ ret = NotReturned
    /\ IdleRead
    /\ IdlePool

CallAlignDiffByMinimum ==
    /\ args.fn = "align_diff_by_minimum"
    /\ ~ret.done
    /\ ret' = Returned(align_diff_by_minimum(args.df, args.window_size))
    /\ UNCHANGED <<args, readVars, poolVars>>

SpecAlign == InitAlign /\ [][CallAlignDiffByMinimum]_vars

\* The row of the first occurrence of the smallest (largest) smoothed diff.
FirstMinRow(rows) ==
    CHOOSE i \in 1..Len(rows) :
        /\ \A j \in 1..Len(rows) : rows[i].diff_roll <= rows[j].diff_roll
        /\ \A j \in 1..(i - 1) : rows[j].diff_roll > rows[i].diff_roll

FirstMaxRow(rows) ==
    CHOOSE i \in 1..Len(rows) :
        /\ \A j \in 1..Len(rows) : rows[i].diff_roll >= rows[j].diff_roll
        /\ \A j \in 1..(i - 1) : rows[j].diff_roll < rows[i].diff_roll

StartColumn(rows) == [i \in 1..Len(rows) |-> rows[i].start]

OtherColumnsKept(before, after) ==
    /\ Len(after) = Len(before)
    /\ \A i \in 1..Len(before) :
          /\ after[i].chromosome = before[i].chromosome
          /\ after[i].end = before[i].end
          /\ after[i].BrdU = before[i].BrdU
          /\ after[i].EdU = before[i].EdU
          /\ after[i].diff = before[i].diff

\* C9: x = start - m in every row, m being the start read after the
\* potential reversal at the row of the first occurrence of the smallest
\* smoothed diff, so that row has x = 0; ties at the minimum and at the
\* maximum go to the first occurrence, which also decides the reversal.
C9_CentredOnFirstMinimum ==
    (args.fn = "align_diff_by_minimum" /\ ret.done)
    => LET rows == ret.value
           imin == FirstMinRow(rows)
           imax == FirstMaxRow(rows)
           m == rows[imin].start
       IN /\ \A i \in 1..Len(rows) : rows[i].x = rows[i].start - m
          /\ rows[imin].x = 0
          /\ StartColumn(rows) =
                IF args.df[imin].start > args.df[imax].start
                THEN ReversedColumn(StartColumn(args.df))
                ELSE StartColumn(args.df)

\* C9 witness: a track whose smallest smoothed diff occurs twice, first at a
\* row that is neither the first nor the last, and whose starts were reversed.
C9_Witness ==
    /\ args.fn = "align_diff_by_minimum"
    /\ ret.done
    /\ LET rows == ret.value
           imin == FirstMinRow(rows)
       IN /\ 1 < imin /\ imin < Len(rows)
          /\ \E j \in (imin + 1)..Len(rows) : rows[j].diff_roll = rows[imin].diff_roll
          /\ StartColumn(rows) # StartColumn(args.df)
          /\ rows[imin].x = 0

\* C10, as the specification states it: when the start at the argmin row is
\* greater than or equal to the start at the argmax row, the start column
\* comes out reversed and every other column keeps its order.
C10_ReversedWhenNotLess ==
    (args.fn = "align_diff_by_minimum" /\ ret.done
        /\ args.df[FirstMinRow(ret.value)].start >= args.df[FirstMaxRow(ret.value)].start)
    => /\ StartColumn(ret.value) = ReversedColumn(StartColumn(args.df))
       /\ OtherColumnsKept(args.df, ret.value)

\* C10, amended: when the start at the argmin row is strictly greater than
\* the start at the argmax row, the start column comes out reversed and every
\* other column keeps its order.
C10_ReversedWhenGreater ==
    (args.fn = "align_diff_by_minimum" /\ ret.done
        /\ args.df[FirstMinRow(ret.value)].start > args.df[FirstMaxRow(ret.value)].start)
    => /\ StartColumn(ret.value) = ReversedColumn(StartColumn(args.df))
       /\ OtherColumnsKept(args.df, ret.value)

\* C10 witness: a track of the default smoothing length whose argmin start is
\* the greater one, so that its start column changed.
C10_Witness ==
    /\ args.fn = "align_diff_by_minimum"
    /\ ret.done
    /\ args.window_size = 500
    /\ args.df[FirstMinRow(ret.value)].start > args.df[FirstMaxRow(ret.value)].start
    /\ StartColumn(ret.value) # StartColumn(args.df)
    /\ StartColumn(ret.value) = ReversedColumn(StartColumn(args.df))

(***************************************************************************)
(* make_aggregate_plot_df on drawn batches of paired tracks.  The windows  *)
(* of these tracks lie 20000 apart, so that a track of five rows reaches   *)
(* both limits of the clip.  The EdU file of a track may be one row        *)
(* shorter than its BrdU file: read_bedgraph_tracks then leaves EdU, and   *)
(* with it diff, missing in the last row.                                  *)
(***************************************************************************)
AggregateSignalPairs == {<<0, 100>>, <<100, 0>>}   \* <<BrdU, EdU>> of a row, in hundredths

BatchSizes == 0..2                                 \* paired tracks of a directory

AggregateRowCounts == {1, 3, 5}                    \* rows of such a track

\* Lines 51-59 of read_bedgraph_tracks: row k of a track of n rows whose EdU
\* file has edu_rows rows.
AggregateTrackRow(k, n, descending, pair, edu_rows) ==
    LET start == IF descending THEN 100000 + 20000 * (n - k) ELSE 100000 + 20000 * (k - 1)
        EdU == IF k <= edu_rows THEN Num(pair[2]) ELSE NaN
    IN [chromosome |-> "chr1", start |-> start, end |-> start + 20000,
        BrdU |-> Num(pair[1]), EdU |-> EdU, diff |-> Minus(Num(pair[1]), EdU)]

AggregateTracks ==
    UNION {{[k \in 1..n |-> AggregateTrackRow(k, n, descending, signal[k], edu_rows)] :
                signal \in [1..n -> AggregateSignalPairs], descending \in BOOLEAN,
                edu_rows \in {n - 1, n} \ {0}} :
           n \in AggregateRowCounts}

InitAggregate ==
    /\ args \in {[fn |-> "make_aggregate_plot_df", replication_tracks |-> b,
                  sample_name |-> "sample"] :
                    b \in UNION {[1..m -> AggregateTracks] : m \in BatchSizes}}
    /\ ret = NotReturned
    /\ IdleRead
    /\ IdlePool

CallMakeAggregatePlotDf ==
    /\ args.fn = "make_aggregate_plot_df"
    /\ ~ret.done
    /\ ret' = make_aggregate_plot_df(args.replication_tracks, args.sample_name)
    /\ UNCHANGED <<args, readVars, poolVars>>

SpecAggregate == InitAggregate /\ [][CallMakeAggregatePlotDf]_vars

\* The rows of the aligned tracks of the batch, pooled.
PooledRows ==
    Concat([t \in 1..Len(args.replication_tracks) |->
               align_diff_by_minimum(args.replication_tracks[t], 500)])

\* C11: the summary handed to the boundary detector holds exactly one row per
\* distinct x of the pooled rows with -40000 <= x <= 60000 and no other row,
\* in strictly ascending x order, and the n of each row is the number of
\* pooled rows of that x whose diff is not missing.
C11_SummaryRows ==
    (args.fn = "make_aggregate_plot_df" /\ ret.done /\ ret.raised = "none")
    => LET rows == ret.value
           pooled == PooledRows
       IN /\ {rows[i].x : i \in 1..Len(rows)} =
                {pooled[j].x : j \in {j \in 1..Len(pooled) :
                                         -40000 <= pooled[j].x /\ pooled[j].x <= 60000}}
          /\ \A i \in 1..Len(rows) : \A j \in (i + 1)..Len(rows) : rows[i].x < rows[j].x
          /\ \A i \in 1..Len(rows) :
                rows[i].n = Cardinality({j \in 1..Len(pooled) :
                                            pooled[j].x = rows[i].x /\ ~pooled[j].diff.nan})

\* C11 witness: a batch with pooled rows below -40000 and above 60000, whose
\* summary begins at -40000 and ends at 60000 and has a row that counts
\* fewer diffs than there are pooled rows of its x.
C11_Witness ==
    /\ args.fn = "make_aggregate_plot_df"
    /\ ret.done
    /\ ret.raised = "none"
    /\ LET rows == ret.value
           pooled == PooledRows
       IN /\ \E j \in 1..Len(pooled) : pooled[j].x < -40000
          /\ \E j \in 1..Len(pooled) : pooled[j].x > 60000
          /\ rows[1].x = -40000
          /\ rows[Len(rows)].x = 60000
          /\ \E i \in 1..Len(rows) :
                rows[i].n < Cardinality({j \in 1..Len(pooled) : pooled[j].x = rows[i].x})

(***************************************************************************)
(* The two boundary detectors on drawn arguments.  A summary handed to     *)
(* detect_signal_boundaries is ordered by ascending x, as                  *)
(* summarize_combined_tracks leaves it; its rows lie 50 apart, but for a   *)
(* gap of 100 after the third.  median_diff is in two-hundredths.          *)
(***************************************************************************)
MedianValues == {-40, 2, 4, 20}

SummaryX(i) == IF i <= 3 THEN 50 * (i - 3) ELSE 50 * (i - 2)

SummaryRow(i, median_diff) ==
    [x |-> SummaryX(i), median_diff |-> median_diff,
     n |-> IF median_diff.nan THEN 0 ELSE 1, sample_name |-> "sample"]

\* The paired tracks handed to the single-track detector: windows 8000
\* apart, BrdU and EdU in hundredths, the EdU file possibly one row short.
\* They are aligned with a smoothing length of 3 in place of the default 500,
\* under which the minimum of so short a track can fall inside it.
DetectSignalPairs == {<<0, 100>>, <<100, 0>>, <<100, 50>>}

DetectRowCounts == {1, 3, 6}

DetectTrackRow(k, n, descending, pair, edu_rows) ==
    LET start == IF descending THEN 100000 + 8000 * (n - k) ELSE 100000 + 8000 * (k - 1)
        EdU == IF k <= edu_rows THEN Num(pair[2]) ELSE NaN
    IN [chromosome |-> "chr1", start |-> start, end |-> start + 8000,
        BrdU |-> Num(pair[1]), EdU |-> EdU, diff |-> Minus(Num(pair[1]), EdU)]

InitDetect ==
    /\ \/ \E n \in 1..MaxRows :
             \E m \in [1..n -> {Num(v) : v \in MedianValues} \cup {NaN}] :
                args = [fn |-> "detect_signal_boundaries",
                        summary_df |-> [i \in 1..n |-> SummaryRow(i, m[i])]]
       \/ \E n \in DetectRowCounts :
             \E signal \in [1..n -> DetectSignalPairs], descending \in BOOLEAN,
                edu_rows \in {n - 1, n} \ {0} :
                args = [fn |-> "edu_boundaries_detect",
                        summary_df |-> align_diff_by_minimum(
                            [k \in 1..n |-> DetectTrackRow(k, n, descending, signal[k], edu_rows)],
                            3)]
    /\ ret = NotReturned
    /\ IdleRead
    /\ IdlePool

CallDetectSignalBoundaries ==
    /\ args.fn = "detect_signal_boundaries"
    /\ ~ret.done
    /\ ret' = Returned(detect_signal_boundaries(args.summary_df))
    /\ UNCHANGED <<args, readVars, poolVars>>

CallEduBoundariesDetect ==
    /\ args.fn = "edu_boundaries_detect"
    /\ ~ret.done
    /\ ret' = Returned(edu_boundaries_detect(args.summary_df))
    /\ UNCHANGED <<args, readVars, poolVars>>

NextDetect ==
    \/ CallDetectSignalBoundaries
    \/ CallEduBoundariesDetect

SpecDetect == InitDetect /\ [][NextDetect]_vars

\* The smoothed median_diff of the rows lo..Len(rows) of a summary, smoothed
\* on their own, at row i of the summary: 101 times its value.
SmoothedFrom(rows, lo, i) ==
    UniformFilterSum([k \in 1..(Len(rows) + 1 - lo) |-> FillNa0(rows[lo + k - 1].median_diff)],
                     i + 1 - lo, 101)

\* The x of the first row of I, undefined if I is empty.
FirstX(rows, I) == IF I = {} THEN NaN ELSE Num(rows[MinOf(I)].x)

ClaimedEduStart(rows) ==
    FirstX(rows, {i \in 1..Len(rows) : SmoothedFrom(rows, 1, i) < -2020})

ClaimedBrduStart(rows) ==
    LET edu_start == ClaimedEduStart(rows)
    IN IF edu_start.nan THEN NaN
       ELSE FirstX(rows, {i \in 1..Len(rows) :
                             /\ rows[i].x >= edu_start.v
                             /\ ~rows[i].median_diff.nan
                             /\ rows[i].median_diff.v > 0})

\* The rows later than brdu_start + 100 end the summary, which is ordered.
ClaimedBrduEnd(rows) ==
    LET brdu_start == ClaimedBrduStart(rows)
        later == IF brdu_start.nan THEN {}
                 ELSE {i \in 1..Len(rows) : rows[i].x > brdu_start.v + 100}
    IN FirstX(rows, {i \in later : SmoothedFrom(rows, MinOf(later), i) <= 202})

\* C12: detect_signal_boundaries reports, in every row, edu_start = the x of
\* the first row whose smoothed median_diff is below -0.1; brdu_start = the x
\* of the first row with x >= edu_start whose own median_diff is above 0;
\* brdu_end = the x of the first row, among the rows with x > brdu_start +
\* 100 smoothed again on their own, whose value is at most 0.01; each is NaN,
\* not a coordinate, when the boundary before it is or no row qualifies.
C12_AggregateBoundaries ==
    (args.fn = "detect_signal_boundaries" /\ ret.done)
    => /\ Len(ret.value) = Len(args.summary_df)
       /\ \A i \in 1..Len(ret.value) :
             /\ ret.value[i].edu_start = ClaimedEduStart(args.summary_df)
             /\ ret.value[i].brdu_start = ClaimedBrduStart(args.summary_df)
             /\ ret.value[i].brdu_end = ClaimedBrduEnd(args.summary_df)
             /\ ret.value[i].x = args.summary_df[i].x
             /\ ret.value[i].median_diff = args.summary_df[i].median_diff

\* C12 witness: the three boundaries are defined, a row lies within 100
\* after brdu_start, and of the rows later than that the first one is
\* passed over, its re-smoothed value being above 0.01.
C12_Witness ==
    /\ args.fn = "detect_signal_boundaries"
    /\ ret.done
    /\ LET rows == args.summary_df
           out == ret.value[1]
       IN /\ ~out.edu_start.nan
          /\ ~out.brdu_start.nan
          /\ ~out.brdu_end.nan
          /\ \E i \in 1..Len(rows) :
                /\ rows[i].x > out.brdu_start.v + 100
                /\ rows[i].x < out.brdu_end.v
          /\ \E i \in 1..Len(rows) :
                /\ rows[i].x > out.brdu_start.v
                /\ rows[i].x <= out.brdu_start.v + 100

\* The rows of a track in ascending x.
InAscendingX(track) == SortByX(track)

\* 101 times the smoothed diff of row i, a missing diff counting as 0.
SmoothedDiff(rows, i) ==
    UniformFilterSum([k \in 1..Len(rows) |-> FillNa0(rows[k].diff)], i, 101)

ClaimedTrackEduStart(rows) ==
    FirstX(rows, {i \in 1..Len(rows) :
                     /\ -10000 < rows[i].x
                     /\ rows[i].x < 0
                     /\ SmoothedDiff(rows, i) < -1010})

ClaimedTrackBrduStart(rows) ==
    LET edu_start == ClaimedTrackEduStart(rows)
    IN IF edu_start.nan THEN NaN
       ELSE FirstX(rows, {i \in 1..Len(rows) :
                             /\ rows[i].x >= edu_start.v
                             /\ rows[i].x > 0
                             /\ ~rows[i].diff.nan
                             /\ rows[i].diff.v > 0})

\* The rows with neither diff nor BrdU missing, and the rolling means over them.
ValidRows(rows) == SelectSeq(rows, LAMBDA r : ~r.diff.nan /\ ~r.BrdU.nan)

BrduSmooth(valid, i) == Rolling([k \in 1..Len(valid) |-> valid[k].BrdU.v], i)

DiffSmooth(valid, i) == Rolling([k \in 1..Len(valid) |-> valid[k].diff.v], i)

\* The first of the rows of the sub-range at which BrdU_smooth is largest.
ClaimedPeak(valid, sub) ==
    CHOOSE i \in sub :
        /\ \A j \in sub : ~MeanGreater(BrduSmooth(valid, j), BrduSmooth(valid, i))
        /\ \A j \in sub : j < i => MeanGreater(BrduSmooth(valid, i), BrduSmooth(valid, j))

\* brdu_end, the search beginning at the peak row itself (at_peak) or at the
\* row after it.
ClaimedTrackBrduEnd(rows, at_peak) ==
    LET brdu_start == ClaimedTrackBrduStart(rows)
        valid == ValidRows(rows)
        sub == IF brdu_start.nan THEN {}
               ELSE {i \in 1..Len(valid) :
                        /\ valid[i].x > brdu_start.v
                        /\ valid[i].x <= brdu_start.v + 15000}
        peak == ClaimedPeak(valid, sub)
    IN IF sub = {} THEN NaN
       ELSE FirstX(valid, {i \in 1..Len(valid) :
                              /\ IF at_peak THEN i >= peak ELSE i > peak
                              /\ DropCondition(DiffSmooth(valid, i), BrduSmooth(valid, i))})

TrackBoundaries(at_peak) ==
    (args.fn = "edu_boundaries_detect" /\ ret.done)
    => LET rows == InAscendingX(args.summary_df)
       IN \A i \in 1..Len(ret.value) :
             /\ ret.value[i].edu_start = ClaimedTrackEduStart(rows)
             /\ ret.value[i].brdu_start = ClaimedTrackBrduStart(rows)
             /\ ret.value[i].brdu_end = ClaimedTrackBrduEnd(rows, at_peak)

\* C13: edu_boundaries_detect returns edu_start = the x of the first row in
\* ascending x with -10000 < x < 0 whose smoothed diff is below -0.1;
\* brdu_start = the x of the first row with x >= edu_start and x > 0 whose
\* own diff is above 0; brdu_end = the x of the first row from the peak's x
\* onward where diff_smooth <= 0.75 and diff_smooth/BrdU_smooth <= 0.65, the
\* peak being the row of largest BrdU_smooth among the rows of neither diff
\* nor BrdU missing with x in (brdu_start, brdu_start + 15000]; each is
\* undefined when the boundary before it is or no row qualifies.
C13_TrackBoundaries == TrackBoundaries(TRUE)

\* The same with the search for brdu_end beginning after the peak row.
TrackBoundariesAfterPeak == TrackBoundaries(FALSE)

\* A track whose peak row meets both drop conditions, and so would be its
\* own brdu_end were the search to begin at it.
PeakRowQualifies ==
    /\ args.fn = "edu_boundaries_detect"
    /\ ret.done
    /\ LET rows == InAscendingX(args.summary_df)
       IN /\ ~ClaimedTrackBrduEnd(rows, TRUE).nan
          /\ ~ret.value[1].brdu_end.nan
          /\ ClaimedTrackBrduEnd(rows, TRUE).v < ret.value[1].brdu_end.v

\* C15: for both detectors the returned boundaries keep the definedness
\* chain and the order: brdu_start is defined only if edu_start is, brdu_end
\* only if brdu_start is, and the defined ones satisfy edu_start <=
\* brdu_start <= brdu_end, with brdu_end > brdu_start + 100 in the aggregate
\* variant and edu_start < 0 < brdu_start < brdu_end in the single-track one.
C15_BoundariesOrdered ==
    (args.fn \in {"detect_signal_boundaries", "edu_boundaries_detect"} /\ ret.done)
    => \A i \in 1..Len(ret.value) :
          LET edu_start == ret.value[i].edu_start
              brdu_start == ret.value[i].brdu_start
              brdu_end == ret.value[i].brdu_end
          IN /\ ~brdu_start.nan => ~edu_start.nan
             /\ ~brdu_end.nan => ~brdu_start.nan
             /\ ~brdu_start.nan => edu_start.v <= brdu_start.v
             /\ ~brdu_end.nan => brdu_start.v <= brdu_end.v
             /\ (args.fn = "detect_signal_boundaries" /\ ~brdu_end.nan)
                   => brdu_end.v > brdu_start.v + 100
             /\ (args.fn = "edu_boundaries_detect" /\ ~edu_start.nan) => edu_start.v < 0
             /\ (args.fn = "edu_boundaries_detect" /\ ~brdu_start.nan) => 0 < brdu_start.v
             /\ (args.fn = "edu_boundaries_detect" /\ ~brdu_end.nan)
                   => brdu_start.v < brdu_end.v

\* C15 witness: a summary in which a row with a median_diff above 0 lies
\* before edu_start, and brdu_start is defined.
C15_Witness ==
    /\ args.fn = "detect_signal_boundaries"
    /\ ret.done
    /\ ~ret.value[1].edu_start.nan
    /\ ~ret.value[1].brdu_start.nan
    /\ \E i \in 1..Len(args.summary_df) :
          /\ args.summary_df[i].x < ret.value[1].edu_start.v
          /\ ~args.summary_df[i].median_diff.nan
          /\ args.summary_df[i].median_diff.v > 0

\* A track on which the single-track detector defines the three boundaries,
\* a row lying before edu_start.
C15_TrackWithThreeBoundaries ==
    /\ args.fn = "edu_boundaries_detect"
    /\ ret.done
    /\ ~ret.value[1].edu_start.nan
    /\ ~ret.value[1].brdu_start.nan
    /\ ~ret.value[1].brdu_end.nan
    /\ ret.value[1].x < ret.value[1].edu_start.v

(***************************************************************************)
(* plot_each_track on the list read_bedgraph_tracks builds from a          *)
(* directory of 0..2 pairs of files.  args.tracks keeps the pairs as       *)
(* <<sample_id, df>>, args.paired_tracks is the list the function reads.   *)
(***************************************************************************)
SampleIds == <<"readA", "readB">>

DirectoryRowCounts == {1, 3}

InitSingle ==
    /\ \E m \in BatchSizes :
          \E n \in [1..m -> DirectoryRowCounts], descending \in [1..m -> BOOLEAN] :
             \E signal \in [1..m -> [1..3 -> DetectSignalPairs]] :
                LET df(t) == [k \in 1..n[t] |->
                                 DetectTrackRow(k, n[t], descending[t], signal[t][k], n[t])]
                IN args = [fn |-> "plot_each_track",
                           tracks |-> [t \in 1..m |-> <<SampleIds[t], df(t)>>],
                           paired_tracks |-> [t \in 1..m |-> PairedItem(SampleIds[t], df(t))]]
    /\ ret = NotReturned
    /\ IdleRead
    /\ IdlePool

CallPlotEachTrack ==
    /\ args.fn = "plot_each_track"
    /\ ~ret.done
    /\ ret' = plot_each_track(args.paired_tracks)
    /\ UNCHANGED <<args, readVars, poolVars>>

SpecSingle == InitSingle /\ [][CallPlotEachTrack]_vars

\* The CSV rows the tracks from t on are to give: a track has a row exactly
\* when edu_start is defined and at least 1500 above its least x and brdu_end
\* is defined and at least 1500 away from its greatest x.
RECURSIVE ClaimedCsv(_, _)
ClaimedCsv(tracks, t) ==
    IF t > Len(tracks) THEN <<>>
    ELSE LET aligned == align_diff_by_minimum(tracks[t][2], 500)
             xs == {aligned[i].x : i \in 1..Len(aligned)}
             b == edu_boundaries_detect(aligned)[1]
             written == /\ ~b.edu_start.nan
                        /\ b.edu_start.v - MinOf(xs) >= 1500
                        /\ ~b.brdu_end.nan
                        /\ MaxOf(xs) - b.brdu_end.v >= 1500
             row == [read_id |-> tracks[t][1],
                     edu_track |-> b.brdu_start.v - b.edu_start.v,
                     brdu_track |-> b.brdu_end.v - b.brdu_start.v,
                     Fork_track |-> b.brdu_end.v - b.edu_start.v]
         IN (IF written THEN <<row>> ELSE <<>>) \o ClaimedCsv(tracks, t + 1)

\* C14: plot_each_track takes every paired track that read_bedgraph_tracks
\* returned, aligns it, runs the detector on it and writes a CSV row for it
\* exactly when edu_start is defined and at least 1500 above the track's
\* least x and brdu_end is defined and at least 1500 away from its greatest
\* x; a written row has edu_track = brdu_start - edu_start, brdu_track =
\* brdu_end - brdu_start and Fork_track = edu_track + brdu_track.
C14_CsvRows ==
    (args.fn = "plot_each_track" /\ ret.done)
    => /\ ret.raised = "none"
       /\ LET claimed == ClaimedCsv(args.tracks, 1)
          IN /\ Len(ret.value.csv) = Len(claimed)
             /\ \A i \in 1..Len(claimed) :
                   /\ ret.value.csv[i].read_id = claimed[i].read_id
                   /\ ret.value.csv[i].edu_track = Num(claimed[i].edu_track)
                   /\ ret.value.csv[i].brdu_track = Num(claimed[i].brdu_track)
                   /\ ret.value.csv[i].Fork_track = Num(claimed[i].Fork_track)

\* A directory with one pair of files at least: the function ended on the
\* ValueError of line 23.
C14_UnpackFails ==
    /\ args.fn = "plot_each_track"
    /\ Len(args.paired_tracks) >= 1
    /\ ret.done
    /\ ret.raised = "ValueError"

====
